---- MODULE Spec2Model ----
(***************************************************************************)
(* Prompt-to-analysis pipeline of the Data-Analysis-Bot dashboard          *)
(* (src/analysis.py): snippet extraction, the generative path, the         *)
(* heuristic fallback generator, snippet execution and result validation.  *)
(*                                                                         *)
(* Text (prompts, column names, model responses, snippets) is a sequence   *)
(* of one-character strings, so that substring tests, lower-casing, digit  *)
(* scans, fence search and line splitting are computed as the code does.   *)
(***************************************************************************)
EXTENDS Integers, Sequences, FiniteSets, TLC

VARIABLES
  model,       \* the module global model: "None" when the configuration failed
  df,          \* the table the caller passes to analyze_data (the same object every call)
  pc,          \* position of the call in progress
  prompt,      \* the prompt of the call in progress
  df0,         \* history: df as it was when the call was entered
  llm,         \* history: what model.generate_content did in this call
  code,        \* the snippet obtained by interpret_prompt_with_llm
  local_vars,  \* the namespace of exec
  outcome,     \* the triple analyze_data returned
  escaped,     \* the exception that left the called function, "" when none did
  trace,       \* history: the calls made so far in this call, in order
  data_df,           \* data_fetch.data_df, the shared default table
  data_columns,      \* data_fetch.data_columns
  last_update_time,  \* data_fetch.last_update_time
  threads,           \* per thread: its position in fetch_data and the locals of the call
  pollers,           \* the number of polling threads started so far
  script_pc,         \* position of the dashboard script (app.py) in its current run
  app_data_df,       \* the table object app.py bound to its name data_df in this run
  current_df,        \* the copy of the default table the script took last
  fetches,           \* the number of fetch_data calls entered so far
  last_prompt,       \* the prompt of the previous analysis (session_state.last_prompt)
  last_results,      \* what the previous analysis returned (session_state.last_results)
  runs,              \* the number of analyses entered so far in a session
  filter_input,      \* the table passed to apply_multi_column_filters
  filters,           \* the selection made per column
  filtered_df        \* the table apply_multi_column_filters returned

analysis_vars == <<model, df, pc, prompt, df0, llm, code, local_vars, outcome, escaped, trace>>
fetch_vars ==
  <<data_df, data_columns, last_update_time, threads, pollers, script_pc, app_data_df, app_data_df, current_df, fetches>>
\* the variables outside the analysis pipeline
session_vars == <<last_prompt, last_results, runs>>
filter_vars == <<filter_input, filters, filtered_df>>
env_vars == <<fetch_vars, session_vars, filter_vars>>
vars == <<analysis_vars, env_vars>>

(***************************************************************************)
(* Bounds                                                                  *)
(***************************************************************************)
\* rows of an input table
MaxRows == 3
\* words of a generated prompt
MaxWords == 2
\* columns with a selection in the filter step
MaxFilters == 2
\* lines of a response text
MaxLines == 3
\* analyses in one session
MaxRuns == 2
\* polling threads started
MaxPollers == 2
\* calls of fetch_data entered
MaxFetches == 3

(***************************************************************************)
(* Text                                                                    *)
(***************************************************************************)
UpperChars == <<"A","B","C","D","E","F","G","H","I","J","K","L","M","N","O","P","Q","R","S","T","U","V","W","X","Y","Z">>
LowerChars == <<"a","b","c","d","e","f","g","h","i","j","k","l","m","n","o","p","q","r","s","t","u","v","w","x","y","z">>
DigitChars == <<"0","1","2","3","4","5","6","7","8","9">>
\* characters str.strip() removes
Whitespace == {" ", "\n", "\t", "\r"}

\* the value None
PyNone == <<"<None>">>

\* the smallest / largest member of a non-empty set of integers
MinOf(S) == CHOOSE x \in S : \A y \in S : x <= y
MaxOf(S) == CHOOSE x \in S : \A y \in S : x >= y

\* str.lower(), one character
LowerChar(c) ==
  IF \E i \in 1..26 : UpperChars[i] = c
    THEN LowerChars[CHOOSE i \in 1..26 : UpperChars[i] = c]
    ELSE c

\* str.lower()
Lower(s) == [i \in 1..Len(s) |-> LowerChar(s[i])]

\* needle occurs in hay at offset i (0-based)
OccursAt(needle, hay, i) ==
  /\ i + Len(needle) <= Len(hay)
  /\ \A k \in 1..Len(needle) : hay[i + k] = needle[k]

\* needle in hay
Contains(needle, hay) == \E i \in 0..(Len(hay) - Len(needle)) : OccursAt(needle, hay, i)

\* any(kw in text for kw in kws)
ContainsAny(kws, text) == \E k \in 1..Len(kws) : Contains(kws[k], text)

\* text.startswith(prefix)
StartsWith(text, prefix) == OccursAt(prefix, text, 0)

\* str.strip()
Strip(s) ==
  LET keep == {i \in 1..Len(s) : s[i] \notin Whitespace}
  IN IF keep = {} THEN <<>> ELSE SubSeq(s, MinOf(keep), MaxOf(keep))

\* str.split(newline)
RECURSIVE SplitLines(_)
SplitLines(s) ==
  LET nl == {i \in 1..Len(s) : s[i] = "\n"}
  IN IF nl = {} THEN <<s>>
     ELSE <<SubSeq(s, 1, MinOf(nl) - 1)>> \o SplitLines(SubSeq(s, MinOf(nl) + 1, Len(s)))

\* sep.join(parts)
RECURSIVE Join(_, _)
Join(sep, parts) ==
  IF Len(parts) = 0 THEN <<>>
  ELSE IF Len(parts) = 1 THEN parts[1]
  ELSE parts[1] \o sep \o Join(sep, Tail(parts))

IsDigit(c) == \E d \in 1..10 : DigitChars[d] = c
DigitVal(c) == (CHOOSE d \in 1..10 : DigitChars[d] = c) - 1

\* int(digits)
RECURSIVE ParseInt(_)
ParseInt(ds) ==
  IF Len(ds) = 0 THEN 0
  ELSE 10 * ParseInt(SubSeq(ds, 1, Len(ds) - 1)) + DigitVal(ds[Len(ds)])

\* re.findall(\d+, s)[0:1]: the first maximal run of digits, <<>> when there is none
FirstDigitRun(s) ==
  LET ds == {i \in 1..Len(s) : IsDigit(s[i])}
  IN IF ds = {} THEN <<>>
     ELSE LET a == MinOf(ds)
              b == MaxOf({j \in a..Len(s) : \A k \in a..j : IsDigit(s[k])})
          IN SubSeq(s, a, b)

(***************************************************************************)
(* Tables: ordered named columns, a kind (dtype) per column, rows of cells.*)
(* Cells of int64 columns are integers, cells of object and datetime       *)
(* columns are strings.                                                    *)
(***************************************************************************)
DataFrame(cols, kind, rows) == [cols |-> cols, kind |-> kind, rows |-> rows]

\* pd.DataFrame()
EmptyDataFrame == DataFrame(<<>>, <<>>, <<>>)

\* mutation of IsEmpty: only the row axis is looked at
IsEmpty_RowsOnly(t) == Len(t.rows) = 0

\* df.empty: either axis has length 0
IsEmpty(t) == Len(t.cols) = 0 \/ Len(t.rows) = 0

\* position of a column name
ColIdx(t, c) == MinOf({j \in 1..Len(t.cols) : t.cols[j] = c})

\* c in t.columns
has_column(f, c) == \E j \in 1..Len(f.cols) : f.cols[j] = c

\* df[c].dtype
Dtype(t, c) == t.kind[ColIdx(t, c)]

\* dtype in [np.number, int64, float64]
DtypeInNumberList(k) == k \in {"int64", "float64"}
\* dtype in [object, category]
DtypeInObjectList(k) == k \in {"object", "category"}
\* df.select_dtypes(include=[np.number]).columns
\* the kinds np.number covers in select_dtypes and that sum, mean and nlargest
\* accept
IsNumberKind(k) == k \in {"int64", "float64", "int32"}

NumericCols(t) == SelectSeq(t.cols, LAMBDA c : IsNumberKind(Dtype(t, c)))
\* df.select_dtypes(include=[object, category]).columns
CategoricalCols(t) == SelectSeq(t.cols, LAMBDA c : Dtype(t, c) \in {"object", "category"})

(***************************************************************************)
(* generate_fallback_code                                                  *)
(***************************************************************************)
ValueKeywords ==
  << <<"v","a","l","u","e">>, <<"a","m","o","u","n","t">>, <<"q","t","y">>,
     <<"q","u","a","n","t","i","t","y">>, <<"n","u","m","b","e","r">>,
     <<"c","o","u","n","t">>, <<"t","o","t","a","l">>, <<"s","u","m">>,
     <<"s","c","o","r","e">>, <<"m","a","r","k">> >>
CategoryKeywords ==
  << <<"c","a","t","e","g","o","r","y">>, <<"t","y","p","e">>, <<"s","t","a","t","u","s">>,
     <<"n","a","m","e">>, <<"g","r","o","u","p">>, <<"c","l","a","s","s">>,
     <<"c","i","t","y">>, <<"l","o","c","a","t","i","o","n">> >>
DateKeywords ==
  << <<"d","a","t","e">>, <<"t","i","m","e">>, <<"d","a","y">>,
     <<"m","o","n","t","h">>, <<"y","e","a","r">> >>

kw_top == <<"t","o","p">>
kw_distribution == <<"d","i","s","t","r","i","b","u","t","i","o","n">>
kw_histogram == <<"h","i","s","t","o","g","r","a","m">>
kw_pie == <<"p","i","e">>
kw_percent == <<"p","e","r","c","e","n","t">>
kw_compare == <<"c","o","m","p","a","r","e">>
kw_correlation == <<"c","o","r","r","e","l","a","t","i","o","n">>
kw_scatter == <<"s","c","a","t","t","e","r">>
kw_trend == <<"t","r","e","n","d">>

\* a snippet: src is "llm" (text holds the extracted source) or "fallback"
\* (the f-string template of branch filled with the resolved names)
Snippet(src, text, branch, category_col, value_col, second_value_col, date_col, n) ==
  [src |-> src, text |-> text, branch |-> branch, category_col |-> category_col,
   value_col |-> value_col, second_value_col |-> second_value_col,
   date_col |-> date_col, n |-> n]

NoSnippet == Snippet("none", <<>>, "", <<>>, <<>>, <<>>, <<>>, 0)

\* what a call gives: a value, or the exception it raised (exc /= "")
Returned(v) == [exc |-> "", msg |-> "", val |-> v]
Raised(e, m) == [exc |-> e, msg |-> m, val |-> NoSnippet]

\* re.findall(\d+, s)[-1:]: the last maximal run of digits
LastDigitRun(s) ==
  LET ds == {i \in 1..Len(s) : IsDigit(s[i])}
  IN IF ds = {} THEN <<>>
     ELSE LET b == MaxOf(ds)
              a == MinOf({j \in 1..b : \A k \in j..b : IsDigit(s[k])})
          IN SubSeq(s, a, b)

\* mutation of top_n: numbers[-1] instead of numbers[0]
top_n_LastRun(prompt_lower) ==
  LET numbers == LastDigitRun(prompt_lower)
  IN IF numbers /= <<>> THEN ParseInt(numbers) ELSE 5

\* n = int(numbers[0]) if numbers else 5
top_n(prompt_lower) ==
  LET numbers == FirstDigitRun(prompt_lower)
  IN IF numbers /= <<>> THEN ParseInt(numbers) ELSE 5

value_columns(t) == SelectSeq(t.cols, LAMBDA c : ContainsAny(ValueKeywords, Lower(c)))
category_columns(t) == SelectSeq(t.cols, LAMBDA c : ContainsAny(CategoryKeywords, Lower(c)))
date_columns(t) == SelectSeq(t.cols, LAMBDA c : ContainsAny(DateKeywords, Lower(c)))
mentioned_columns(prompt_lower, t) == SelectSeq(t.cols, LAMBDA c : Contains(Lower(c), prompt_lower))

\* mutation of fallback_branch: the pie test is made before the top test
fallback_branch_PieFirst(prompt_lower, t) ==
  IF Contains(kw_pie, prompt_lower) \/ Contains(kw_percent, prompt_lower) THEN "pie"
  ELSE IF Contains(kw_top, prompt_lower) THEN "top"
  ELSE IF Contains(kw_distribution, prompt_lower) \/ Contains(kw_histogram, prompt_lower) THEN "histogram"
  ELSE IF Contains(kw_compare, prompt_lower) \/ Contains(kw_correlation, prompt_lower)
          \/ Contains(kw_scatter, prompt_lower) THEN "scatter"
  ELSE IF Contains(kw_trend, prompt_lower) /\ date_columns(t) /= <<>> THEN "line"
  ELSE "default"

\* the dispatch of lines 157-200, first match wins
fallback_branch(prompt_lower, t) ==
  IF Contains(kw_top, prompt_lower) THEN "top"
  ELSE IF Contains(kw_distribution, prompt_lower) \/ Contains(kw_histogram, prompt_lower) THEN "histogram"
  ELSE IF Contains(kw_pie, prompt_lower) \/ Contains(kw_percent, prompt_lower) THEN "pie"
  ELSE IF Contains(kw_compare, prompt_lower) \/ Contains(kw_correlation, prompt_lower)
          \/ Contains(kw_scatter, prompt_lower) THEN "scatter"
  ELSE IF Contains(kw_trend, prompt_lower) /\ date_columns(t) /= <<>> THEN "line"
  ELSE "default"

\* df.columns[0]: IndexError on a table without columns
first_column_fails(t) == Len(t.cols) = 0

\* lines 135-142; <<>> stands for the IndexError of df.columns[0]
resolve_value_col(prompt_lower, t) ==
  LET mentioned == mentioned_columns(prompt_lower, t)
      values == value_columns(t)
      numeric_cols == NumericCols(t)
  IN IF mentioned /= <<>> /\ DtypeInNumberList(Dtype(t, mentioned[1])) THEN mentioned[1]
     ELSE IF values /= <<>> THEN values[1]
     ELSE IF Len(numeric_cols) > 0 THEN numeric_cols[1]
     ELSE IF first_column_fails(t) THEN <<>> ELSE t.cols[1]

\* mutation of resolve_category_col: the first mentioned column is tried
\* before the second
resolve_category_col_FirstFirst(prompt_lower, t) ==
  LET mentioned == mentioned_columns(prompt_lower, t)
      categories == category_columns(t)
      cat_cols == CategoricalCols(t)
  IN IF mentioned /= <<>> /\ DtypeInObjectList(Dtype(t, mentioned[1])) THEN mentioned[1]
     ELSE IF mentioned /= <<>> /\ Len(mentioned) > 1 /\ DtypeInObjectList(Dtype(t, mentioned[2])) THEN mentioned[2]
     ELSE IF categories /= <<>> THEN categories[1]
     ELSE IF Len(cat_cols) > 0 THEN cat_cols[1]
     ELSE IF first_column_fails(t) THEN <<>> ELSE t.cols[1]

\* lines 145-154; <<>> stands for the IndexError of df.columns[0]
resolve_category_col(prompt_lower, t) ==
  LET mentioned == mentioned_columns(prompt_lower, t)
      categories == category_columns(t)
      cat_cols == CategoricalCols(t)
  IN IF mentioned /= <<>> /\ Len(mentioned) > 1 /\ DtypeInObjectList(Dtype(t, mentioned[2])) THEN mentioned[2]
     ELSE IF mentioned /= <<>> /\ DtypeInObjectList(Dtype(t, mentioned[1])) THEN mentioned[1]
     ELSE IF categories /= <<>> THEN categories[1]
     ELSE IF Len(cat_cols) > 0 THEN cat_cols[1]
     ELSE IF first_column_fails(t) THEN <<>> ELSE t.cols[1]

generate_fallback_code(p, t) ==
  LET prompt_lower == Lower(p)
      n == top_n(prompt_lower)
      value_col == resolve_value_col(prompt_lower, t)
      category_col == resolve_category_col(prompt_lower, t)
      branch == fallback_branch(prompt_lower, t)
      second_value_cols == SelectSeq(value_columns(t), LAMBDA c : c /= value_col)
      second_value_col == IF second_value_cols /= <<>> THEN second_value_cols[1] ELSE value_col
      dates == date_columns(t)
  IN IF value_col = <<>> \/ category_col = <<>>
       THEN Raised("IndexError", "index 0 is out of bounds for axis 0 with size 0")
       ELSE Returned(Snippet("fallback", <<>>, branch, category_col, value_col,
                             IF branch = "scatter" THEN second_value_col ELSE <<>>,
                             IF branch = "line" THEN dates[1] ELSE <<>>,
                             n))

(***************************************************************************)
(* pandas / plotly operations used by the snippets                         *)
(***************************************************************************)
\* every string cell of the input tables, in sort order
StringOrder == <<"2023-01-01", "2023-01-02", "2023-01-03", "A", "B", "C", "n/a">>
\* the strings pd.to_datetime parses, in calendar order (consecutive days)
DayStrings == <<"2023-01-01", "2023-01-02", "2023-01-03">>

RankIn(seq, x) == CHOOSE i \in 1..Len(seq) : seq[i] = x

\* the order groupby sorts group keys by
KeyLess(kind, a, b) ==
  IF kind \in {"int64", "float64", "int32"} THEN a < b
  ELSE RankIn(StringOrder, a) < RankIn(StringOrder, b)

\* the distinct values of a column, sorted (the group keys of groupby)
RECURSIVE SortKeys(_, _)
SortKeys(kind, S) ==
  IF S = {} THEN <<>>
  ELSE LET m == CHOOSE x \in S : \A y \in S : y = x \/ KeyLess(kind, x, y)
       IN <<m>> \o SortKeys(kind, S \ {m})

GroupKeys(t, c) == SortKeys(Dtype(t, c), {t.rows[i][ColIdx(t, c)] : i \in 1..Len(t.rows)})

RECURSIVE SumSeq(_)
SumSeq(s) == IF Len(s) = 0 THEN 0 ELSE s[1] + SumSeq(Tail(s))

\* the cells of column v in the rows whose column c equals key
GroupCells(t, c, v, key) ==
  LET rs == SelectSeq(t.rows, LAMBDA r : r[ColIdx(t, c)] = key)
  IN [i \in 1..Len(rs) |-> rs[i][ColIdx(t, v)]]

\* df.groupby(c)[v].sum() as a sequence of <<key, sum>>, keys sorted
GroupSum(t, c, v) ==
  LET keys == GroupKeys(t, c)
  IN [i \in 1..Len(keys) |-> <<keys[i], SumSeq(GroupCells(t, c, v, keys[i]))>>]

\* Series.nlargest(n): the n largest, descending, ties in series order
RECURSIVE NLargest(_, _)
NLargest(series, n) ==
  IF n <= 0 \/ Len(series) = 0 THEN <<>>
  ELSE LET best == MinOf({i \in 1..Len(series) : \A j \in 1..Len(series) : series[j][2] <= series[i][2]})
           rest == [i \in 1..(Len(series) - 1) |-> IF i < best THEN series[i] ELSE series[i + 1]]
       IN <<series[best]>> \o NLargest(rest, n - 1)

\* the value a snippet run leaves behind: the namespace (names bound among the
\* canonical three and their values) and the table df after the run, or the
\* exception it raised (exc /= "") with the table as it was left
Namespace(names, result_type, result_df, fig, viz_type) ==
  [names |-> names, result_type |-> result_type, result_df |-> result_df,
   fig |-> fig, viz_type |-> viz_type]

\* local_vars before exec: none of the canonical names bound
InitialNamespace == Namespace({}, "", EmptyDataFrame, "", "")

ExecOk(ns, t) == [exc |-> "", msg |-> "", ns |-> ns, df |-> t]
ExecRaised(e, m, ns, t) == [exc |-> e, msg |-> m, ns |-> ns, df |-> t]

Bind3(result_df, fig, viz_type) ==
  Namespace({"result_df", "fig", "viz_type"}, "DataFrame", result_df, fig, viz_type)

\* lines 160-163
exec_top(c, t) ==
  LET cat == c.category_col
      val == c.value_col
  IN IF ~IsNumberKind(Dtype(t, val))
       THEN ExecRaised("TypeError", "Cannot use method 'nlargest' with dtype object", InitialNamespace, t)
     ELSE IF cat = val
       THEN ExecRaised("ValueError", "cannot insert column, already exists", InitialNamespace, t)
     ELSE LET top_data == DataFrame(<<cat, val>>, <<Dtype(t, cat), Dtype(t, val)>>,
                                    NLargest(GroupSum(t, cat, val), c.n))
          IN ExecOk(Bind3(top_data, "bar", "bar"), t)

\* lines 168-170
exec_histogram(c, t) ==
  LET val == c.value_col
      result_df == DataFrame(<<val>>, <<Dtype(t, val)>>,
                             [i \in 1..Len(t.rows) |-> <<t.rows[i][ColIdx(t, val)]>>])
  IN ExecOk(Bind3(result_df, "histogram", "histogram"), t)

\* lines 175-177
exec_pie(c, t) ==
  LET cat == c.category_col
      val == c.value_col
  IN IF cat = val
       THEN ExecRaised("ValueError", "cannot insert column, already exists", InitialNamespace, t)
     ELSE LET result_df == DataFrame(<<cat, val>>, <<Dtype(t, cat), Dtype(t, val)>>, GroupSum(t, cat, val))
          IN ExecOk(Bind3(result_df, "pie", "pie"), t)

\* lines 185-188
exec_scatter(c, t) ==
  LET sel == <<c.category_col, c.value_col, c.second_value_col>>
      result_df == DataFrame(sel, [j \in 1..3 |-> Dtype(t, sel[j])],
                             [i \in 1..Len(t.rows) |-> [j \in 1..3 |-> t.rows[i][ColIdx(t, sel[j])]]])
  IN ExecOk(Bind3(result_df, "scatter", "scatter"), t)

\* pd.to_datetime on a column: the kind becomes datetime64[ns]; fails on a
\* string that is not a date
to_datetime_fails(t, c) ==
  /\ Dtype(t, c) = "object"
  /\ \E i \in 1..Len(t.rows) : ~\E d \in 1..Len(DayStrings) : DayStrings[d] = t.rows[i][ColIdx(t, c)]

\* df[c] = pd.to_datetime(df[c]): assigns the converted column into df itself
assign_to_datetime(t, c) ==
  [t EXCEPT !.kind = [j \in 1..Len(t.cols) |-> IF j = ColIdx(t, c) THEN "datetime64[ns]" ELSE t.kind[j]]]

\* df.groupby(pd.Grouper(key=d, freq=D))[v].sum().reset_index(): one row per
\* calendar day from the first to the last date, empty days summing to 0
DailySum(t, d, v) ==
  LET days == {RankIn(DayStrings, t.rows[i][ColIdx(t, d)]) : i \in 1..Len(t.rows)}
  IN IF days = {} THEN <<>>
     ELSE LET first == MinOf(days)
              last == MaxOf(days)
          IN [k \in 1..(last - first + 1) |->
                <<DayStrings[first + k - 1], SumSeq(GroupCells(t, d, v, DayStrings[first + k - 1]))>>]

\* mutation of exec_line: the date column is made the index of df in place
\* (set_index with inplace=True), which takes it out of the columns
exec_line_SetsIndex(c, t) ==
  LET val == c.value_col
      date_col == c.date_col
  IN IF to_datetime_fails(t, date_col)
       THEN ExecRaised("ValueError", "Unknown datetime string format", InitialNamespace, t)
     ELSE LET converted == assign_to_datetime(t, date_col)
              trend_data == DataFrame(<<date_col, val>>, <<"datetime64[ns]", Dtype(t, val)>>,
                                      DailySum(converted, date_col, val))
              keep == SelectSeq([j \in 1..Len(t.cols) |-> j], LAMBDA j : t.cols[j] /= date_col)
              indexed == DataFrame([k \in 1..Len(keep) |-> t.cols[keep[k]]],
                                   [k \in 1..Len(keep) |-> t.kind[keep[k]]],
                                   [i \in 1..Len(t.rows) |-> [k \in 1..Len(keep) |-> t.rows[i][keep[k]]]])
          IN ExecOk(Bind3(trend_data, "line", "line"), indexed)

\* lines 194-198
exec_line(c, t) ==
  LET val == c.value_col
      date_col == c.date_col
  IN IF to_datetime_fails(t, date_col)
       THEN ExecRaised("ValueError", "Unknown datetime string format", InitialNamespace, t)
     ELSE LET converted == assign_to_datetime(t, date_col)
              trend_data == DataFrame(<<date_col, val>>, <<"datetime64[ns]", Dtype(t, val)>>,
                                      DailySum(converted, date_col, val))
          IN ExecOk(Bind3(trend_data, "line", "line"), converted)

\* lines 203-206; the mean is the exact quotient num/den
exec_default(c, t) ==
  LET cat == c.category_col
      val == c.value_col
      sums == GroupSum(t, cat, val)
      Total == <<"T","o","t","a","l","_">> \o val
      Average == <<"A","v","e","r","a","g","e","_">> \o val
      Count == <<"C","o","u","n","t">>
  IN IF ~IsNumberKind(Dtype(t, val))
       THEN ExecRaised("TypeError", "agg function failed [how->mean,dtype->object]", InitialNamespace, t)
     ELSE LET result_df ==
                DataFrame(<<cat, Total, Average, Count>>,
                          <<Dtype(t, cat), Dtype(t, val), "float64", "int64">>,
                          [i \in 1..Len(sums) |->
                             LET cnt == Len(GroupCells(t, cat, val, sums[i][1]))
                             IN <<sums[i][1], sums[i][2], [num |-> sums[i][2], den |-> cnt], cnt>>])
          IN ExecOk(Bind3(result_df, "bar", "bar"), t)

\* exec of a snippet of generate_fallback_code against the table bound to df
exec_fallback(c, t) ==
  CASE c.branch = "top" -> exec_top(c, t)
    [] c.branch = "histogram" -> exec_histogram(c, t)
    [] c.branch = "pie" -> exec_pie(c, t)
    [] c.branch = "scatter" -> exec_scatter(c, t)
    [] c.branch = "line" -> exec_line(c, t)
    [] c.branch = "default" -> exec_default(c, t)

\* the chart-type tag each template assigns to viz_type
fallback_viz_type(branch) ==
  CASE branch = "top" -> "bar"
    [] branch = "histogram" -> "histogram"
    [] branch = "pie" -> "pie"
    [] branch = "scatter" -> "scatter"
    [] branch = "line" -> "line"
    [] branch = "default" -> "bar"

(***************************************************************************)
(* clean_code_snippet                                                      *)
(***************************************************************************)
\* the backquote character (written as a token: the lexer pairs a literal one
\* with a later apostrophe)
bq == "bq"
fence_open == <<bq,bq,bq,"p","y","t","h","o","n">>
fence_close == <<bq,bq,bq>>
\* the markers of line 37
CodeMarkers ==
  << <<"i","m","p","o","r","t"," ">>, <<"d","e","f"," ">>, <<"="," ","p","x",".">>,
     <<"f","i","g"," ","="," ">>, <<"r","e","s","u","l","t","_","d","f"," ","=">> >>

\* mutation of fence_search: the body is matched greedily, up to the last
\* closing fence
fence_search_Greedy(text) ==
  LET opens == {i \in 0..(Len(text) - Len(fence_open)) : OccursAt(fence_open, text, i)}
  IN IF opens = {} THEN PyNone
     ELSE LET body == MinOf(opens) + Len(fence_open)
              closes == {j \in body..(Len(text) - Len(fence_close)) : OccursAt(fence_close, text, j)}
          IN IF closes = {} THEN PyNone ELSE SubSeq(text, body + 1, MaxOf(closes))

\* re.search(a python-tagged fence, text, re.DOTALL): group(1) of the leftmost
\* match with the shortest body, PyNone when nothing matches
fence_search(text) ==
  LET opens == {i \in 0..(Len(text) - Len(fence_open)) : OccursAt(fence_open, text, i)}
  IN IF opens = {} THEN PyNone
     ELSE LET body == MinOf(opens) + Len(fence_open)
              closes == {j \in body..(Len(text) - Len(fence_close)) : OccursAt(fence_close, text, j)}
          IN IF closes = {} THEN PyNone ELSE SubSeq(text, body + 1, MinOf(closes))

\* the loop of lines 36-40
RECURSIVE scan_code_lines(_, _)
scan_code_lines(lines, in_code) ==
  IF Len(lines) = 0 THEN <<>>
  ELSE LET line == Head(lines)
           now_in_code == in_code \/ ContainsAny(CodeMarkers, line)
       IN (IF now_in_code /\ ~StartsWith(Strip(line), <<"#">>) THEN <<line>> ELSE <<>>)
          \o scan_code_lines(Tail(lines), now_in_code)

\* mutation of clean_code_snippet: line 43 returns the joined lines as they are
clean_code_snippet_NoStrip(text) ==
  LET code_match == fence_search(text)
      code_lines == scan_code_lines(SplitLines(text), FALSE)
  IN IF code_match /= PyNone THEN Strip(code_match)
     ELSE IF code_lines /= <<>> THEN Join(<<"\n">>, code_lines)
     ELSE PyNone

clean_code_snippet(text) ==
  LET code_match == fence_search(text)
      code_lines == scan_code_lines(SplitLines(text), FALSE)
  IN IF code_match /= PyNone THEN Strip(code_match)
     ELSE IF code_lines /= <<>> THEN Strip(Join(<<"\n">>, code_lines))
     ELSE PyNone

\* mutation of not_snippet: code_snippet is None
not_snippet_IsNone(s) == s = PyNone

\* not code_snippet
not_snippet(s) == s = PyNone \/ s = <<>>

(***************************************************************************)
(* exec of a snippet the model wrote.  The statements the modelled         *)
(* responses are made of; any other non-blank, non-comment line is a       *)
(* SyntaxError, raised at compile time before anything runs.               *)
(***************************************************************************)
l_result_df == <<"r","e","s","u","l","t","_","d","f"," ","="," ","d","f">>
l_result_empty == <<"r","e","s","u","l","t","_","d","f"," ","="," ","d","f",".","h","e","a","d","(","0",")">>
l_result_int == <<"r","e","s","u","l","t","_","d","f"," ","="," ","5">>
l_fig == <<"f","i","g"," ","="," ","p","x",".","b","a","r","(","d","f",")">>
l_viz == <<"v","i","z","_","t","y","p","e"," ","="," ","'","b","a","r","'">>
l_import == <<"i","m","p","o","r","t"," ","m","a","t","h">>
l_raise == <<"r","a","i","s","e"," ","V","a","l","u","e","E","r","r","o","r","(","'","x","'",")">>
l_drop == <<"d","f",".","d","r","o","p","(","d","f",".","i","n","d","e","x",","," ","i","n","p","l","a","c","e","=","T","r","u","e",")">>
l_comment == <<"#"," ","c","h","a","r","t">>
l_prose == <<"S","u","r","e",","," ","h","e","r","e"," ","i","t"," ","i","s">>
l_sorry == <<"S","o","r","r","y",","," ","n","o"," ","i","d","e","a">>
l_comment_import == <<"#"," ","i","m","p","o","r","t"," ","m","a","t","h">>

Statements == {l_result_df, l_result_empty, l_result_int, l_fig, l_viz, l_import, l_raise, l_drop}

\* the names of local_vars, line 221
SnippetLocals == {"df", "px", "pd", "np"}

\* the globals dictionary of line 224 is the literal {}: exec inserts the key
\* __builtins__ into a globals dictionary that lacks it
exec_globals == {"__builtins__"}

\* some of the names the builtins module binds
builtins == {"__import__", "open", "print", "len", "range"}

\* the names a statement of the snippet resolves: the locals, the names the
\* snippet has bound, the globals and, through __builtins__, the builtins
visible_names(ns) ==
  SnippetLocals \cup ns.names \cup exec_globals \cup
  (IF "__builtins__" \in exec_globals THEN builtins ELSE {})

is_blank_or_comment(line) == Strip(line) = <<>> \/ StartsWith(Strip(line), <<"#">>)

\* result_type "df": result_df is the object df itself, not a copy
bind_result(ns, type, value) ==
  [ns EXCEPT !.names = @ \cup {"result_df"}, !.result_type = type, !.result_df = value]

RECURSIVE run_statements(_, _, _)
run_statements(lines, ns, t) ==
  IF Len(lines) = 0 THEN ExecOk(ns, t)
  ELSE LET line == Head(lines)
           rest == Tail(lines)
       IN CASE is_blank_or_comment(line) -> run_statements(rest, ns, t)
            [] line = l_result_df -> run_statements(rest, bind_result(ns, "df", t), t)
            [] line = l_result_empty ->
                 run_statements(rest, bind_result(ns, "DataFrame", [t EXCEPT !.rows = <<>>]), t)
            [] line = l_result_int -> run_statements(rest, bind_result(ns, "int", EmptyDataFrame), t)
            [] line = l_fig ->
                 run_statements(rest, [ns EXCEPT !.names = @ \cup {"fig"}, !.fig = "bar"], t)
            [] line = l_viz ->
                 run_statements(rest, [ns EXCEPT !.names = @ \cup {"viz_type"}, !.viz_type = "bar"], t)
            [] line = l_import ->
                 IF "__import__" \in visible_names(ns)
                   THEN run_statements(rest, ns, t)
                   ELSE ExecRaised("ImportError", "__import__ not found", ns, t)
            [] line = l_raise -> ExecRaised("ValueError", "x", ns, t)
            [] line = l_drop ->
                 LET dropped == [t EXCEPT !.rows = <<>>]
                 IN run_statements(rest,
                                   IF ns.result_type = "df" THEN [ns EXCEPT !.result_df = dropped] ELSE ns,
                                   dropped)

exec_llm(c, t) ==
  LET lines == SplitLines(c.text)
  IN IF \E i \in 1..Len(lines) : ~is_blank_or_comment(lines[i]) /\ lines[i] \notin Statements
       THEN ExecRaised("SyntaxError", "invalid syntax", InitialNamespace, t)
       ELSE run_statements(lines, InitialNamespace, t)

\* exec(code, {}, local_vars), line 224
exec(c, t) == IF c.src = "fallback" THEN exec_fallback(c, t) ELSE exec_llm(c, t)

(***************************************************************************)
(* Inputs: tables, prompts, responses of the external model                *)
(***************************************************************************)
c_Category == <<"C","a","t","e","g","o","r","y">>
c_Value1 == <<"V","a","l","u","e","1">>
c_Value2 == <<"V","a","l","u","e","2">>
c_Date == <<"D","a","t","e">>
c_ID == <<"I","D">>
c_typesum == <<"t","y","p","e","s","u","m">>
c_Price == <<"P","r","i","c","e">>
c_Region == <<"R","e","g","i","o","n">>
c_Day == <<"D","a","y">>

Cycle(seq, i) == seq[((i - 1) % Len(seq)) + 1]

\* the cell of row i in a column
SampleCell(c, i) ==
  CASE c \in {c_Category, c_Region, c_ID} -> Cycle(<<"A", "B", "C">>, i)
    [] c \in {c_Value1, c_Price, c_typesum} -> Cycle(<<1, 5, 2, 1>>, i)
    [] c = c_Value2 -> Cycle(<<4, 0, 3>>, i)
    [] c = c_Date -> Cycle(<<"2023-01-01", "2023-01-03", "2023-01-03", "2023-01-02">>, i)
    [] c = c_Day -> Cycle(<<"2023-01-02", "2023-01-01", "n/a">>, i)

\* column names and kinds of the input tables: the sample table of
\* create_sample_data restricted to some of its columns, a table whose only
\* column is an identifier, one whose only column matches a value and a
\* category keyword, one whose names match no keyword, one whose date column
\* holds a string that is not a date, one with two text columns and a column
\* of 32-bit integers, and a table without columns
Schemas ==
  { <<<<c_Category, c_Value1>>, <<"object", "int64">>>>,
    <<<<c_Category, c_Value1, c_Value2, c_Date>>, <<"object", "int64", "int64", "object">>>>,
    <<<<c_ID>>, <<"object">>>>,
    <<<<c_typesum>>, <<"int64">>>>,
    <<<<c_Price, c_Region>>, <<"int64", "object">>>>,
    <<<<c_Day, c_Value1>>, <<"object", "int64">>>>,
    <<<<c_Category, c_Region, c_Price, c_Value1>>, <<"object", "object", "int32", "int64">>>>,
    <<<<>>, <<>>>> }

SampleTable(schema, n) ==
  DataFrame(schema[1], schema[2],
            [i \in 1..n |-> [j \in 1..Len(schema[1]) |-> SampleCell(schema[1][j], i)]])

Tables == {SampleTable(sch, n) : sch \in Schemas, n \in 0..MaxRows}

Vocabulary == {kw_top, kw_pie, kw_trend, c_Value1}

ExamplePrompts ==
  { <<"S","h","o","w"," ","t","o","p"," ","1","2"," ","c","a","t","e","g","o","r","i","e","s">>,
    <<"s","h","o","w"," ","t","r","e","n","d"," ","o","v","e","r"," ","t","i","m","e">>,
    <<"d","i","s","t","r","i","b","u","t","i","o","n"," ","o","f"," ","V","a","l","u","e","1">>,
    <<"s","t","o","p"," ","0">>,
    <<"C","a","t","e","g","o","r","y"," ","V","a","l","u","e","1"," ","p","e","r","c","e","n","t">>,
    <<"t","o","p"," ","3"," ","b","y"," ","V","a","l","u","e","1">>,
    <<"s","c","a","t","t","e","r"," ","V","a","l","u","e","2">>,
    <<"3"," ","t","r","e","n","d">>,
    <<"t","o","p"," ","P","r","i","c","e">>,
    <<"R","e","g","i","o","n"," ","C","a","t","e","g","o","r","y"," ","p","i","e">> }

Prompts ==
  ExamplePrompts \cup
  {Join(<<" ">>, ws) : ws \in UNION {[1..k -> Vocabulary] : k \in 0..MaxWords}}

\* snippets the model may write, as lines
Programs ==
  { <<l_result_df, l_fig, l_viz>>,
    <<l_result_df>>,
    <<l_result_empty, l_fig, l_viz>>,
    <<l_import>>,
    <<l_fig, l_raise>>,
    <<l_result_int, l_fig>>,
    <<l_drop, l_result_df, l_fig>> }

Fenced(lines) == l_prose \o <<"\n">> \o fence_open \o <<"\n">> \o Join(<<"\n">>, lines) \o <<"\n">> \o fence_close

\* response.text
Responses ==
  {Fenced(p) : p \in Programs} \cup
  { l_sorry,
    fence_open \o <<"\n">> \o fence_close,
    l_comment_import \o <<"\n">>,
    Join(<<"\n">>, <<l_prose, l_result_df, l_comment, l_fig>>),
    Join(<<"\n">>, <<l_result_df, l_sorry>>) }

(***************************************************************************)
(* interpret_prompt_with_llm and analyze_data                              *)
(***************************************************************************)
Outcome(result_df, fig, viz_type) == [result_df |-> result_df, fig |-> fig, viz_type |-> viz_type]
\* before analyze_data has returned
NoOutcome == Outcome(EmptyDataFrame, "", "")
\* fig is None
NoFig == "None"

\* what the model did in the current call
NoCall == [called |-> FALSE, raised |-> FALSE, text |-> <<>>]
CallRaised == [called |-> TRUE, raised |-> TRUE, text |-> <<>>]
CallReturned(text) == [called |-> TRUE, raised |-> FALSE, text |-> text]

\* mutation of IsCaught: except ValueError
IsCaught_OnlyValueError(exc) == exc = "ValueError"

\* except Exception (lines 108, 237): every exception of the model is an Exception
IsCaught(exc) == TRUE

\* lines 237-240
error_outcome(msg) == Outcome(EmptyDataFrame, NoFig, "Error processing prompt: " \o msg)

\* mutation of extract_and_validate: the emptiness test of line 232 is missing
extract_and_validate_NoEmptyCheck(ns) ==
  LET result_df == IF "result_df" \in ns.names THEN ns.result_df ELSE EmptyDataFrame
      fig == IF "fig" \in ns.names THEN ns.fig ELSE NoFig
      viz_type == IF "viz_type" \in ns.names THEN ns.viz_type ELSE "none"
  IN IF "result_df" \in ns.names /\ ns.result_type = "int"
       THEN [exc |-> "AttributeError", msg |-> "int object has no attribute empty", val |-> NoOutcome]
     ELSE [exc |-> "", msg |-> "", val |-> Outcome(result_df, fig, viz_type)]

\* mutation of extract_and_validate: line 233 returns the chart it read out
extract_and_validate_KeepsFig(ns) ==
  LET result_df == IF "result_df" \in ns.names THEN ns.result_df ELSE EmptyDataFrame
      fig == IF "fig" \in ns.names THEN ns.fig ELSE NoFig
      viz_type == IF "viz_type" \in ns.names THEN ns.viz_type ELSE "none"
  IN IF "result_df" \in ns.names /\ ns.result_type = "int"
       THEN [exc |-> "AttributeError", msg |-> "int object has no attribute empty", val |-> NoOutcome]
     ELSE IF IsEmpty(result_df)
       THEN [exc |-> "", msg |-> "", val |-> Outcome(EmptyDataFrame, fig, "No results generated from the query")]
     ELSE [exc |-> "", msg |-> "", val |-> Outcome(result_df, fig, viz_type)]

\* lines 227-235 applied to local_vars after exec (r.exc = "")
extract_and_validate(ns) ==
  LET result_df == IF "result_df" \in ns.names THEN ns.result_df ELSE EmptyDataFrame
      fig == IF "fig" \in ns.names THEN ns.fig ELSE NoFig
      viz_type == IF "viz_type" \in ns.names THEN ns.viz_type ELSE "none"
  IN IF "result_df" \in ns.names /\ ns.result_type = "int"
       THEN [exc |-> "AttributeError", msg |-> "int object has no attribute empty", val |-> NoOutcome]
     ELSE IF IsEmpty(result_df)
       THEN [exc |-> "", msg |-> "", val |-> Outcome(EmptyDataFrame, NoFig, "No results generated from the query")]
     ELSE [exc |-> "", msg |-> "", val |-> Outcome(result_df, fig, viz_type)]

(***************************************************************************)
(* The environment of the pipeline before the dashboard has started: the   *)
(* module globals of src/data_fetch.py as lines 17-19 bind them            *)
(***************************************************************************)
\* a table of data_fetch: the column names, the kind of each column, the name
\* of the index (PyNone: the default RangeIndex) and the number of rows.  The
\* cells are left out: no step of fetch_data branches on a cell (the
\* conversions of lines 48 and 50 coerce what they cannot convert)
Frame(cols, kind, index_name, nrows) ==
  [cols |-> cols, kind |-> kind, index_name |-> index_name, nrows |-> nrows]

\* pd.DataFrame(), line 17
EmptyFrame == Frame(<<>>, <<>>, PyNone, 0)

\* the locals of a thread that is not inside fetch_data
NoLocals ==
  [pc |-> "idle", headers |-> <<>>, data_rows |-> <<>>, columns |-> <<>>, i |-> 0,
   entry |-> 0, ret |-> FALSE]

Threads == 0..MaxPollers

\* what the name data_df of app.py refers to: the object the global of
\* data_fetch names (aliased), or an object the global named earlier, which
\* nothing changes any more, with the content it was left with
Alias == [aliased |-> TRUE, frame |-> EmptyFrame]
Detached(f) == [aliased |-> FALSE, frame |-> f]

FetchIdle ==
  /\ data_df = EmptyFrame
  /\ data_columns = <<>>
  /\ last_update_time = 0
  /\ threads = [t \in Threads |-> NoLocals]
  /\ pollers = 0
  /\ script_pc = "import"
  /\ app_data_df = Alias
  /\ current_df = EmptyFrame
  /\ fetches = 0

\* no analysis has run in the session (app.py lines 110-113)
SessionIdle ==
  /\ last_prompt = <<>>
  /\ last_results = NoOutcome
  /\ runs = 0

\* a table with its index: the name of the index (PyNone when it has none)
\* and the index value of every row
Indexed(t, index_name, index) ==
  [cols |-> t.cols, kind |-> t.kind, rows |-> t.rows, index_name |-> index_name, index |-> index]

\* the filter step has not run
FilterIdle ==
  /\ filter_input = Indexed(EmptyDataFrame, PyNone, <<>>)
  /\ filters = <<>>
  /\ filtered_df = Indexed(EmptyDataFrame, PyNone, <<>>)

EnvInit == FetchIdle /\ SessionIdle /\ FilterIdle

Init ==
  /\ model \in {"None", "gemini-pro"}
  /\ df \in Tables
  /\ pc = "idle"
  /\ prompt = <<>>
  /\ df0 = df
  /\ llm = NoCall
  /\ code = NoSnippet
  /\ local_vars = InitialNamespace
  /\ outcome = NoOutcome
  /\ escaped = ""
  /\ trace = <<>>
  /\ EnvInit

\* the exception e leaves the try block of analyze_data
AnalyzeExcept(e, msg) ==
  IF IsCaught(e)
    THEN /\ outcome' = error_outcome(msg)
         /\ escaped' = ""
    ELSE /\ outcome' = NoOutcome
         /\ escaped' = e

\* analyze_data(p, df) is entered: lines 211-214
AnalyzeEnter(p) ==
  /\ pc = "idle"
  /\ prompt' = p
  /\ df0' = df
  /\ llm' = NoCall
  /\ code' = NoSnippet
  /\ local_vars' = InitialNamespace
  /\ escaped' = ""
  /\ trace' = <<>>
  /\ IF IsEmpty(df)
       THEN /\ outcome' = Outcome(EmptyDataFrame, NoFig, "No data available")
            /\ pc' = "returned"
       ELSE /\ outcome' = NoOutcome
            /\ pc' = "interpret"
  /\ UNCHANGED <<model, df>>

\* a call of analyze_data outside a session
Analyze(p) == AnalyzeEnter(p) /\ UNCHANGED env_vars

\* interpret_prompt_with_llm with model None: lines 49-50, the exception
\* reaches the handler of analyze_data
InterpretUnavailable ==
  /\ pc = "interpret"
  /\ model = "None"
  /\ AnalyzeExcept("Exception", "Gemini model not available. Using fallback.")
  /\ pc' = "returned"
  /\ UNCHANGED <<model, df, prompt, df0, llm, code, local_vars, trace>>
  /\ UNCHANGED env_vars

\* the handler of lines 108-110 runs generate_fallback_code
InterpretFallback(call) ==
  LET fb == generate_fallback_code(prompt, df)
  IN /\ llm' = call
     /\ trace' = trace \o <<"model", "fallback">>
     /\ IF fb.exc = ""
          THEN /\ code' = fb.val
               /\ pc' = "exec"
               /\ UNCHANGED <<outcome, escaped>>
          ELSE /\ code' = NoSnippet
               /\ pc' = "returned"
               /\ AnalyzeExcept(fb.exc, fb.msg)

\* interpret_prompt_with_llm, the call of line 100 raises
InterpretCallRaises ==
  /\ pc = "interpret"
  /\ model /= "None"
  /\ InterpretFallback(CallRaised)
  /\ UNCHANGED <<model, df, prompt, df0, local_vars>>
  /\ UNCHANGED env_vars

\* interpret_prompt_with_llm, the call of line 100 returns text: lines 101-106
InterpretCallReturns(text) ==
  /\ pc = "interpret"
  /\ model /= "None"
  /\ LET code_snippet == clean_code_snippet(text)
     IN IF not_snippet(code_snippet)
          THEN InterpretFallback(CallReturned(text))
          ELSE /\ llm' = CallReturned(text)
               /\ trace' = Append(trace, "model")
               /\ code' = Snippet("llm", code_snippet, "", <<>>, <<>>, <<>>, <<>>, 0)
               /\ pc' = "exec"
               /\ UNCHANGED <<outcome, escaped>>
  /\ UNCHANGED <<model, df, prompt, df0, local_vars>>
  /\ UNCHANGED env_vars

\* lines 221-240: the snippet runs against the caller table, the three names
\* are read out and validated
Execute ==
  /\ pc = "exec"
  /\ LET r == exec(code, df)
         v == extract_and_validate(r.ns)
     IN /\ df' = r.df
        /\ local_vars' = r.ns
        /\ IF r.exc /= "" THEN AnalyzeExcept(r.exc, r.msg)
           ELSE IF v.exc /= "" THEN AnalyzeExcept(v.exc, v.msg)
           ELSE /\ outcome' = v.val
                /\ escaped' = ""
        /\ trace' = trace \o (IF r.exc /= "" THEN <<"exec", "raise">> ELSE <<"exec">>)
  /\ pc' = "returned"
  /\ UNCHANGED <<model, prompt, df0, llm, code>>
  /\ UNCHANGED env_vars

\* analyze_data returns: its locals are gone, the caller holds the outcome
ReturnToCaller ==
  /\ pc = "returned"
  /\ pc' = "idle"
  /\ prompt' = <<>>
  /\ df0' = df
  /\ llm' = NoCall
  /\ code' = NoSnippet
  /\ local_vars' = InitialNamespace
  /\ trace' = <<>>
  /\ UNCHANGED <<model, df, outcome, escaped>>

Return == ReturnToCaller /\ UNCHANGED env_vars

Next ==
  \/ \E p \in Prompts : Analyze(p)
  \/ InterpretUnavailable
  \/ InterpretCallRaises
  \/ \E text \in Responses : InterpretCallReturns(text)
  \/ Execute
  \/ Return

Spec == Init /\ [][Next]_vars

(***************************************************************************)
(* generate_fallback_code called on its own, on every table and prompt     *)
(***************************************************************************)
FallbackInit ==
  /\ model \in {"None", "gemini-pro"}
  /\ df \in Tables
  /\ pc = "fb_idle"
  /\ prompt = <<>>
  /\ df0 = df
  /\ llm = NoCall
  /\ code = NoSnippet
  /\ local_vars = InitialNamespace
  /\ outcome = NoOutcome
  /\ escaped = ""
  /\ trace = <<>>
  /\ EnvInit

\* code = generate_fallback_code(p, df)
FallbackCall(p) ==
  /\ pc = "fb_idle"
  /\ LET fb == generate_fallback_code(p, df)
     IN /\ code' = fb.val
        /\ escaped' = fb.exc
  /\ prompt' = p
  /\ pc' = "fb_done"
  /\ trace' = <<"fallback">>
  /\ UNCHANGED <<model, df, df0, llm, local_vars, outcome>>
  /\ UNCHANGED env_vars

FallbackReturn ==
  /\ pc = "fb_done"
  /\ pc' = "fb_idle"
  /\ prompt' = <<>>
  /\ code' = NoSnippet
  /\ escaped' = ""
  /\ trace' = <<>>
  /\ UNCHANGED <<model, df, df0, llm, local_vars, outcome>>
  /\ UNCHANGED env_vars

FallbackNext ==
  \/ \E p \in Prompts : FallbackCall(p)
  \/ FallbackReturn

SpecFallback == FallbackInit /\ [][FallbackNext]_vars

(***************************************************************************)
(* clean_code_snippet called on its own, on response texts of up to        *)
(* MaxLines lines                                                          *)
(***************************************************************************)
l_indented_fig == <<" "," ">> \o l_fig
l_prose_open == l_prose \o <<" ">> \o fence_open
l_close_prose == fence_close \o <<" ">> \o l_prose

\* the lines response texts are made of: fences alone on a line and with
\* text before or after, statements with a marker of line 37 with and
\* without indentation, a comment that holds a marker, and the empty line
ResponseLines ==
  { fence_open, fence_close, l_prose_open, l_close_prose, l_result_df, l_indented_fig,
    l_comment_import, <<>> }

ResponseTexts ==
  {Join(<<"\n">>, ls) : ls \in UNION {[1..k -> ResponseLines] : k \in 0..MaxLines}}

ExtractInit ==
  /\ model = "gemini-pro"
  /\ df = EmptyDataFrame
  /\ pc = "cs_idle"
  /\ prompt = <<>>
  /\ df0 = df
  /\ llm = NoCall
  /\ code = NoSnippet
  /\ local_vars = InitialNamespace
  /\ outcome = NoOutcome
  /\ escaped = ""
  /\ trace = <<>>
  /\ EnvInit

\* code_snippet = clean_code_snippet(response.text), line 101
ExtractCall(text) ==
  /\ pc = "cs_idle"
  /\ llm' = CallReturned(text)
  /\ code' = Snippet("llm", clean_code_snippet(text), "", <<>>, <<>>, <<>>, <<>>, 0)
  /\ pc' = "cs_done"
  /\ UNCHANGED <<model, df, prompt, df0, local_vars, outcome, escaped, trace>>
  /\ UNCHANGED env_vars

ExtractReturn ==
  /\ pc = "cs_done"
  /\ llm' = NoCall
  /\ code' = NoSnippet
  /\ pc' = "cs_idle"
  /\ UNCHANGED <<model, df, prompt, df0, local_vars, outcome, escaped, trace>>
  /\ UNCHANGED env_vars

ExtractNext ==
  \/ \E text \in ResponseTexts : ExtractCall(text)
  \/ ExtractReturn

SpecExtract == ExtractInit /\ [][ExtractNext]_vars

(***************************************************************************)
(* apply_multi_column_filters (src/filters.py)                             *)
(***************************************************************************)
\* line 50: a column with more distinct values is not offered
MaxUniqueValues == 50
\* line 54: the number of distinct values offered
MaxDisplayValues == 20

\* lines 24-28
all_columns(t) ==
  IF t.index_name /= PyNone /\ ~has_column(t, t.index_name)
    THEN <<t.index_name>> \o t.cols
    ELSE t.cols

\* the values the test of lines 42 and 77 makes a filter on col look at: the
\* index when col is its name, the column otherwise
column_values(t, col) ==
  IF col = t.index_name THEN t.index
  ELSE [i \in 1..Len(t.rows) |-> t.rows[i][ColIdx(t, col)]]

\* unique(): the distinct values in the order of their first row
unique_rows(t, col) ==
  LET v == column_values(t, col)
  IN SelectSeq([i \in 1..Len(v) |-> i], LAMBDA i : \A h \in 1..(i - 1) : v[h] /= v[i])

\* lines 50-54: the rows whose values the multiselect of col offers
display_rows(t, col) ==
  LET u == unique_rows(t, col)
  IN IF Len(u) > MaxUniqueValues THEN <<>>
     ELSE IF Len(u) > MaxDisplayValues THEN SubSeq(u, 1, MaxDisplayValues)
     ELSE u

\* the dictionary filters of lines 20-69 for a choice of offered values per
\* column (picked[k] holds the rows whose values are chosen for the k-th of
\* all_columns): one entry per column with a choice, in the order of
\* all_columns
build_filters(t, picked) ==
  LET cols == all_columns(t)
      chosen == SelectSeq([k \in 1..Len(cols) |-> k], LAMBDA k : picked[k] /= {})
  IN [n \in 1..Len(chosen) |->
        [col |-> cols[chosen[n]],
         vals |-> {column_values(t, cols[chosen[n]])[i] : i \in picked[chosen[n]]}]]

\* the choices a user can make in the sidebar of a table that is not empty;
\* an empty table gets no widgets (line 22)
Choices(t) ==
  LET cols == all_columns(t)
      offered(k) == {display_rows(t, cols[k])[n] : n \in 1..Len(display_rows(t, cols[k]))}
      some == {K \in SUBSET (1..Len(cols)) : Cardinality(K) <= MaxFilters}
  IN IF IsEmpty(t) THEN {[k \in 1..Len(cols) |-> {}]}
     ELSE UNION { { [k \in 1..Len(cols) |-> IF k \in K THEN g[k] ELSE {}] :
                      g \in {h \in [K -> (SUBSET (1..Len(t.rows))) \ {{}}] :
                                \A k \in K : h[k] \subseteq offered(k)} } : K \in some }

\* lines 77-80: the rows of f whose value for col is one of vals
isin_filter(f, col, vals) ==
  LET keep == SelectSeq([i \in 1..Len(f.rows) |-> i], LAMBDA i : column_values(f, col)[i] \in vals)
  IN [f EXCEPT !.rows = [n \in 1..Len(keep) |-> f.rows[keep[n]]],
               !.index = [n \in 1..Len(keep) |-> f.index[keep[n]]]]

\* the loop of lines 75-83 over the entries fs left, filtered being
\* filtered_df so far
RECURSIVE apply_filters(_, _, _)
apply_filters(t, fs, filtered) ==
  IF Len(fs) = 0 THEN filtered
  ELSE apply_filters(t, Tail(fs), isin_filter(filtered, Head(fs).col, Head(fs).vals))

\* mutation of apply_multi_column_filters: every filter is applied to df, not
\* to the table filtered so far, so that the last one alone counts
apply_multi_column_filters_ToInput(t, fs) ==
  IF Len(fs) = 0 THEN t ELSE isin_filter(t, fs[Len(fs)].col, fs[Len(fs)].vals)

\* lines 74-92: filtered_df starts as a copy of df
apply_multi_column_filters(t, fs) == apply_filters(t, fs, t)

c_index_ID == <<"I","D","_">>

\* the tables the filter step is given: the input tables without a named
\* index, with an index named ID that is not a column (as create_sample_data
\* builds), and with the first column as index and column (as line 43 of
\* fetch_data builds)
FilterTables ==
  {Indexed(t, PyNone, [i \in 1..Len(t.rows) |-> <<>>]) : t \in Tables} \cup
  {Indexed(t, c_ID, [i \in 1..Len(t.rows) |-> c_index_ID \o <<DigitChars[i + 1]>>]) :
     t \in {u \in Tables : ~has_column(u, c_ID)}} \cup
  {Indexed(t, t.cols[1], [i \in 1..Len(t.rows) |-> t.rows[i][1]]) :
     t \in {u \in Tables : Len(u.cols) > 0}}

FilterInit ==
  /\ model = "None"
  /\ df = EmptyDataFrame
  /\ pc = "f_idle"
  /\ prompt = <<>>
  /\ df0 = EmptyDataFrame
  /\ llm = NoCall
  /\ code = NoSnippet
  /\ local_vars = InitialNamespace
  /\ outcome = NoOutcome
  /\ escaped = ""
  /\ trace = <<>>
  /\ FetchIdle
  /\ SessionIdle
  /\ filter_input \in FilterTables
  /\ filters = <<>>
  /\ filtered_df = filter_input

\* filtered_df = apply_multi_column_filters(current_df), app.py line 232, the
\* user having made the choice picked in the sidebar
FilterCall(picked) ==
  /\ pc = "f_idle"
  /\ filters' = build_filters(filter_input, picked)
  /\ filtered_df' = apply_multi_column_filters(filter_input, filters')
  /\ pc' = "f_done"
  /\ UNCHANGED filter_input
  /\ UNCHANGED <<model, df, prompt, df0, llm, code, local_vars, outcome, escaped, trace>>
  /\ UNCHANGED <<fetch_vars, session_vars>>

\* the next run of the script
FilterReturn ==
  /\ pc = "f_done"
  /\ pc' = "f_idle"
  /\ filters' = <<>>
  /\ filtered_df' = filter_input
  /\ UNCHANGED filter_input
  /\ UNCHANGED <<model, df, prompt, df0, llm, code, local_vars, outcome, escaped, trace>>
  /\ UNCHANGED <<fetch_vars, session_vars>>

\* a run of the script in which the user has made one of the choices the
\* sidebar of the table offers
FilterRun ==
  /\ pc = "f_idle"
  /\ \E picked \in Choices(filter_input) : FilterCall(picked)

FilterNext ==
  \/ FilterRun
  \/ FilterReturn

SpecFilter == FilterInit /\ [][FilterNext]_vars

(***************************************************************************)
(* A session that repeats an analysis: analyze_data is called again with   *)
(* the prompt of the previous call (app.py lines 370-371, 375 and 384-385) *)
(* on the same table, the model being unavailable or its call failing, so  *)
(* that every snippet comes from generate_fallback_code                    *)
(***************************************************************************)
RerunInit ==
  /\ Init

\* the first analysis of the session takes any prompt, the later ones the
\* prompt of the one before
RerunAnalyze(p) ==
  /\ runs < MaxRuns
  /\ runs > 0 => p = last_prompt
  /\ AnalyzeEnter(p)
  /\ last_prompt' = p
  /\ runs' = runs + 1
  /\ UNCHANGED <<last_results, fetch_vars, filter_vars>>

\* the caller keeps what analyze_data returned
RerunReturn ==
  /\ ReturnToCaller
  /\ last_results' = outcome
  /\ UNCHANGED <<last_prompt, runs, fetch_vars, filter_vars>>

RerunNext ==
  \/ \E p \in Prompts : RerunAnalyze(p)
  \/ InterpretUnavailable
  \/ InterpretCallRaises
  \/ Execute
  \/ RerunReturn

SpecRerun == RerunInit /\ [][RerunNext]_vars

(***************************************************************************)
(* fetch_data, create_sample_data and start_polling (src/data_fetch.py),   *)
(* run by the dashboard script and by the polling threads it starts        *)
(* (src/app.py).  A thread switch can fall between any two statements that *)
(* touch a module global, so each such statement is a step.                *)
(***************************************************************************)
c_Type == <<"T","y","p","e">>
c_Value3 == <<"V","a","l","u","e","3">>
c_Status == <<"S","t","a","t","u","s">>
c_Score == <<"S","c","o","r","e">>
c_Location == <<"L","o","c","a","t","i","o","n">>

\* the keywords of line 47
numeric_keywords ==
  << <<"q","t","y">>, <<"q","u","a","n","t","i","t","y">>, <<"a","m","o","u","n","t">>, <<"v","a","l","u","e">>, <<"n","u","m","b","e","r">>, <<"r","a","t","e">>, <<"r","a","t","i","o">>, <<"s","c","o","r","e">>, <<"m","a","r","k">> >>

\* the rows of the sample table, line 68
SampleRows == 50

\* pd.DataFrame(sample_data), line 80
sample_data ==
  Frame(<<c_ID, c_Category, c_Type, c_Value1, c_Value2, c_Value3, c_Status, c_Score, c_Date, c_Location>>,
        <<"object", "object", "object", "int64", "int64", "float64", "object", "float64",
          "datetime64[ns]", "object">>,
        PyNone, SampleRows)

\* f.set_index(c, inplace=True, drop=drop) on a table that has the column c
set_index(f, c, drop) ==
  IF drop
    THEN LET keep == SelectSeq([j \in 1..Len(f.cols) |-> j], LAMBDA j : f.cols[j] /= c)
         IN Frame([k \in 1..Len(keep) |-> f.cols[keep[k]]],
                  [k \in 1..Len(keep) |-> f.kind[keep[k]]], c, f.nrows)
    ELSE [f EXCEPT !.index_name = c]

\* the kind of pd.to_numeric(column, errors=coerce): numbers stay as they are,
\* the decimal strings of the modelled responses and timestamps become int64
to_numeric(k) == IF k \in {"int64", "float64"} THEN k ELSE "int64"

\* the kind of pd.to_datetime(column, errors=coerce)
to_datetime(k) == "datetime64[ns]"

\* f[c] = converted column, lines 48 and 50
assign_kind(f, c, k) ==
  [f EXCEPT !.kind = [j \in 1..Len(f.cols) |-> IF j = ColIdx(f, c) THEN k ELSE f.kind[j]]]

\* the test of line 47 / line 49 on a column name
is_numeric_name(c) == ContainsAny(numeric_keywords, Lower(c))
is_date_name(c) == Contains(<<"d","a","t","e">>, Lower(c))

\* what requests.get and response.json() give: raises is a connection error
\* or an error status (lines 25-26), values the rows of the sheet (line 27)
Response(raises, values) == [raises |-> raises, values |-> values]

sheet_headers == <<c_ID, c_Value1, c_Date>>
sheet_row_1 == <<<<"I","D","_","1">>, <<"1","2">>, <<"2","0","2","3","-","0","1","-","0","1">>>>
sheet_row_2 == <<<<"I","D","_","2">>, <<"7">>, <<"2","0","2","3","-","0","1","-","0","2">>>>
\* a row with more cells than the header row
sheet_row_wide == sheet_row_1 \o <<<<"x">>>>

ApiResponses ==
  { Response(TRUE, <<>>),
    Response(FALSE, <<>>),
    Response(FALSE, <<sheet_headers>>),
    Response(FALSE, <<sheet_headers, sheet_row_1, sheet_row_2>>),
    Response(FALSE, <<sheet_headers, sheet_row_wide>>) }

\* pd.DataFrame(data_rows, columns=headers), line 39: every column holds the
\* strings of the sheet; the constructor raises when the widest row does not
\* have as many cells as there are headers
frame_fails(data_rows, headers) ==
  MaxOf({Len(data_rows[r]) : r \in 1..Len(data_rows)}) /= Len(headers)
new_frame(data_rows, headers) ==
  Frame(headers, [j \in 1..Len(headers) |-> "object"], PyNone, Len(data_rows))

\* data_df = f in data_fetch: the global names a new object, the object it
\* named stays as it is
Rebind(f) ==
  /\ data_df' = f
  /\ app_data_df' = IF app_data_df.aliased THEN Detached(data_df) ELSE app_data_df

\* thread t may run: the script thread is 0, the pollers are 1..pollers
Alive(t) == t = 0 \/ t <= pollers

At(t, label) == Alive(t) /\ threads[t].pc = label
Goto(t, label) == threads' = [threads EXCEPT ![t].pc = label]

\* fetch_data is entered and lines 25-33 run: by the script thread at import
\* (line 94) or from the refresh button (app.py line 203), by a poller in its
\* loop (line 88)
FetchCall(t, resp) ==
  /\ At(t, "idle")
  /\ t = 0 => script_pc \in {"import", "button"}
  /\ fetches < MaxFetches
  /\ fetches' = fetches + 1
  /\ LET ok == ~resp.raises /\ Len(resp.values) >= 2
     IN threads' = [threads EXCEPT ![t] =
          [pc |-> IF ok THEN "l36" ELSE "l58",
           headers |-> IF ok THEN resp.values[1] ELSE <<>>,
           data_rows |-> IF ok THEN Tail(resp.values) ELSE <<>>,
           columns |-> <<>>, i |-> 0, entry |-> last_update_time, ret |-> FALSE]]
  /\ UNCHANGED <<data_df, data_columns, last_update_time, pollers, script_pc, app_data_df, current_df>>
  /\ UNCHANGED <<analysis_vars, session_vars, filter_vars>>

\* line 36
FetchSetColumns(t) ==
  /\ At(t, "l36")
  /\ data_columns' = threads[t].headers
  /\ Goto(t, "l39")
  /\ UNCHANGED <<data_df, last_update_time, pollers, script_pc, app_data_df, current_df, fetches>>
  /\ UNCHANGED <<analysis_vars, session_vars, filter_vars>>

\* line 39: the new table is bound to the global, or the constructor raises
FetchPublish(t) ==
  /\ At(t, "l39")
  /\ IF frame_fails(threads[t].data_rows, threads[t].headers)
       THEN /\ Goto(t, "l58")
            /\ UNCHANGED <<data_df, app_data_df>>
       ELSE /\ Rebind(new_frame(threads[t].data_rows, threads[t].headers))
            /\ Goto(t, "l43")
  /\ UNCHANGED <<data_columns, last_update_time, pollers, script_pc, current_df, fetches>>
  /\ UNCHANGED <<analysis_vars, session_vars, filter_vars>>

\* lines 42-43, on the table the global names now; KeyError when that table
\* does not have the column
FetchSetIndex(t) ==
  /\ At(t, "l43")
  /\ IF Len(threads[t].headers) = 0
       THEN /\ Goto(t, "l46")
            /\ UNCHANGED data_df
     ELSE IF has_column(data_df, threads[t].headers[1])
       THEN /\ data_df' = set_index(data_df, threads[t].headers[1], FALSE)
            /\ Goto(t, "l46")
     ELSE /\ Goto(t, "l58")
          /\ UNCHANGED data_df
  /\ UNCHANGED <<data_columns, last_update_time, pollers, script_pc, app_data_df, current_df, fetches>>
  /\ UNCHANGED <<analysis_vars, session_vars, filter_vars>>

\* line 46: the loop takes the columns of the table the global names now
FetchLoopStart(t) ==
  /\ At(t, "l46")
  /\ threads' = [threads EXCEPT ![t].pc = "l47", ![t].columns = data_df.cols, ![t].i = 1]
  /\ UNCHANGED <<data_df, data_columns, last_update_time, pollers, script_pc, app_data_df, current_df, fetches>>
  /\ UNCHANGED <<analysis_vars, session_vars, filter_vars>>

\* lines 47-50 for one column, on the table the global names now
FetchConvert(t) ==
  /\ At(t, "l47")
  /\ LET loc == threads[t]
         col == loc.columns[loc.i]
         next == [threads EXCEPT ![t].i = loc.i + 1]
     IN IF loc.i > Len(loc.columns)
          THEN /\ Goto(t, "l52")
               /\ UNCHANGED data_df
        ELSE IF ~is_numeric_name(col) /\ ~is_date_name(col)
          THEN /\ threads' = next
               /\ UNCHANGED data_df
        ELSE IF ~has_column(data_df, col)
          THEN /\ Goto(t, "l58")
               /\ UNCHANGED data_df
        ELSE /\ threads' = next
             /\ data_df' = assign_kind(data_df, col,
                             IF is_numeric_name(col) THEN to_numeric(Dtype(data_df, col))
                             ELSE to_datetime(Dtype(data_df, col)))
  /\ UNCHANGED <<data_columns, last_update_time, pollers, script_pc, app_data_df, current_df, fetches>>
  /\ UNCHANGED <<analysis_vars, session_vars, filter_vars>>

\* lines 52-54: time.time() is later than every reading taken before
FetchStamp(t) ==
  /\ At(t, "l52")
  /\ last_update_time' = last_update_time + 1
  /\ threads' = [threads EXCEPT ![t].pc = "ret", ![t].ret = TRUE]
  /\ UNCHANGED <<data_df, data_columns, pollers, script_pc, app_data_df, current_df, fetches>>
  /\ UNCHANGED <<analysis_vars, session_vars, filter_vars>>

\* the handler of line 56 calls create_sample_data: line 80
SamplePublish(t) ==
  /\ At(t, "l58")
  /\ Rebind(sample_data)
  /\ Goto(t, "l81")
  /\ UNCHANGED <<data_columns, last_update_time, pollers, script_pc, current_df, fetches>>
  /\ UNCHANGED <<analysis_vars, session_vars, filter_vars>>

\* line 81, on the table the global names now; a KeyError here is raised
\* inside the handler and leaves fetch_data
SampleSetIndex(t) ==
  /\ At(t, "l81")
  /\ IF has_column(data_df, c_ID)
       THEN /\ data_df' = set_index(data_df, c_ID, TRUE)
            /\ Goto(t, "l82")
       ELSE /\ Goto(t, "raised")
            /\ UNCHANGED data_df
  /\ UNCHANGED <<data_columns, last_update_time, pollers, script_pc, app_data_df, current_df, fetches>>
  /\ UNCHANGED <<analysis_vars, session_vars, filter_vars>>

\* line 82, then return False (line 59)
SampleSetColumns(t) ==
  /\ At(t, "l82")
  /\ data_columns' = data_df.cols
  /\ threads' = [threads EXCEPT ![t].pc = "ret", ![t].ret = FALSE]
  /\ UNCHANGED <<data_df, last_update_time, pollers, script_pc, app_data_df, current_df, fetches>>
  /\ UNCHANGED <<analysis_vars, session_vars, filter_vars>>

\* fetch_data has returned: a poller sleeps (line 89), the script goes on to
\* line 120 of its run (after the import) or is rerun (app.py line 204)
FetchReturn(t) ==
  /\ At(t, "ret")
  /\ threads' = [threads EXCEPT ![t] = NoLocals]
  /\ script_pc' = IF t = 0 THEN "run" ELSE script_pc
  /\ UNCHANGED <<data_df, data_columns, last_update_time, pollers, app_data_df, current_df, fetches>>
  /\ UNCHANGED <<analysis_vars, session_vars, filter_vars>>

\* the exception leaves fetch_data: it ends the thread of a poller (nothing
\* in poll catches it) and the run of the script
FetchEscapes(t) ==
  /\ At(t, "raised")
  /\ threads' = [threads EXCEPT ![t] = [NoLocals EXCEPT !.pc = IF t = 0 THEN "idle" ELSE "dead"]]
  /\ script_pc' = IF t = 0 THEN "run" ELSE script_pc
  /\ UNCHANGED <<data_df, data_columns, last_update_time, pollers, app_data_df, current_df, fetches>>
  /\ UNCHANGED <<analysis_vars, session_vars, filter_vars>>

\* a run of the script starts: app.py line 5 binds the object the global of
\* data_fetch names now (in the first run after the import has run line 94)
ScriptImport ==
  /\ script_pc = "run"
  /\ app_data_df' = Alias
  /\ script_pc' = "start"
  /\ UNCHANGED <<data_df, data_columns, last_update_time, threads, pollers, current_df, fetches>>
  /\ UNCHANGED <<analysis_vars, session_vars, filter_vars>>

\* start_polling(), lines 85-91, called by app.py line 120 in every run of the
\* script
start_polling ==
  /\ script_pc = "start"
  /\ pollers < MaxPollers
  /\ pollers' = pollers + 1
  /\ script_pc' = "read"
  /\ UNCHANGED <<data_df, data_columns, last_update_time, threads, app_data_df, current_df, fetches>>
  /\ UNCHANGED <<analysis_vars, session_vars, filter_vars>>

\* app.py line 176 copies the object line 5 bound
ReadDefaultTable ==
  /\ script_pc = "read"
  /\ current_df' = IF app_data_df.aliased THEN data_df ELSE app_data_df.frame
  /\ script_pc' = "button"
  /\ UNCHANGED <<data_df, data_columns, last_update_time, threads, pollers, app_data_df, fetches>>
  /\ UNCHANGED <<analysis_vars, session_vars, filter_vars>>

\* the run ends without the refresh button; an interaction starts the next
Rerun ==
  /\ script_pc = "button"
  /\ threads[0].pc = "idle"
  /\ script_pc' = "run"
  /\ UNCHANGED <<data_df, data_columns, last_update_time, threads, pollers, app_data_df, current_df, fetches>>
  /\ UNCHANGED <<analysis_vars, session_vars, filter_vars>>

\* the analysis pipeline is not running
AnalysisOff ==
  /\ model = "None"
  /\ df = EmptyDataFrame
  /\ pc = "off"
  /\ prompt = <<>>
  /\ df0 = EmptyDataFrame
  /\ llm = NoCall
  /\ code = NoSnippet
  /\ local_vars = InitialNamespace
  /\ outcome = NoOutcome
  /\ escaped = ""
  /\ trace = <<>>

FetchInit == AnalysisOff /\ EnvInit

FetchNext ==
  \/ \E t \in Threads, resp \in ApiResponses : FetchCall(t, resp)
  \/ \E t \in Threads : FetchSetColumns(t)
  \/ \E t \in Threads : FetchPublish(t)
  \/ \E t \in Threads : FetchSetIndex(t)
  \/ \E t \in Threads : FetchLoopStart(t)
  \/ \E t \in Threads : FetchConvert(t)
  \/ \E t \in Threads : FetchStamp(t)
  \/ \E t \in Threads : SamplePublish(t)
  \/ \E t \in Threads : SampleSetIndex(t)
  \/ \E t \in Threads : SampleSetColumns(t)
  \/ \E t \in Threads : FetchReturn(t)
  \/ \E t \in Threads : FetchEscapes(t)
  \/ ScriptImport
  \/ start_polling
  \/ ReadDefaultTable
  \/ Rerun

SpecFetch == FetchInit /\ [][FetchNext]_vars

(***************************************************************************)
(* Properties                                                              *)
(***************************************************************************)
ChartTags == {"bar", "histogram", "pie", "scatter", "line"}

\* neither axis of a table record is empty / one of them is
HasCells(t) == Len(t.cols) > 0 /\ Len(t.rows) > 0

\* a failure outcome: empty table, absent chart, a status that is a message
FailureOutcome(o) ==
  /\ o.result_df = EmptyDataFrame
  /\ o.fig = NoFig
  /\ o.viz_type \notin ChartTags \cup {"", "none"}

\* the response texts of the model from which no snippet can be extracted:
\* prose only, an empty fenced block, a commented-out marker line
NoSnippetResponses ==
  { l_sorry, fence_open \o <<"\n">> \o fence_close, l_comment_import \o <<"\n">> }

\* C1: whatever the table, the prompt and the behaviour of the model,
\* analyze_data returns a triple (a result table, a chart or None, a status
\* label) and no exception leaves it.
C1_AnalyzeNeverRaises ==
  pc = "returned" =>
    /\ escaped = ""
    /\ outcome.fig /= ""
    /\ outcome.viz_type /= ""
    /\ Len(outcome.result_df.kind) = Len(outcome.result_df.cols)

\* C1 witness: the snippet of the model raised while it ran and analyze_data
\* returned the error outcome made of that exception
C1_Witness ==
  /\ pc = "returned"
  /\ code.src = "llm"
  /\ trace = <<"model", "exec", "raise">>
  /\ outcome = error_outcome("x")

\* C2 (as claimed): with model None and a non-empty table, the snippet that is
\* executed is the one generate_fallback_code gives for the prompt and the
\* table, and the unavailability is not the outcome.
C2_UnavailableRunsFallback ==
  (pc = "returned" /\ model = "None" /\ HasCells(df0)) =>
    /\ code = generate_fallback_code(prompt, df0).val
    /\ \E i \in 1..Len(trace) : trace[i] = "exec"
    /\ outcome.viz_type /= "Error processing prompt: Gemini model not available. Using fallback."

\* C3: when the model is configured and its call raises, or its response has
\* no extractable snippet, the snippet handed to exec is exactly the one
\* generate_fallback_code gives for the same prompt and table.
C3_FailedGenerationRunsFallback ==
  (/\ pc \in {"exec", "returned"}
   /\ model /= "None"
   /\ llm.called
   /\ (llm.raised \/ llm.text \in NoSnippetResponses)) =>
    /\ code = generate_fallback_code(prompt, df0).val
    /\ code.src = "fallback"
    /\ pc = "returned" => trace[3] = "exec"

\* C3 witness: the response was an empty fenced block and the fallback
\* snippet is about to be executed
C3_Witness ==
  /\ pc = "exec"
  /\ llm.called /\ ~llm.raised
  /\ llm.text = fence_open \o <<"\n">> \o fence_close
  /\ code.src = "fallback"

\* the snippet of the model ran without raising and left no result table or
\* an empty one
GenerativeResultEmpty ==
  /\ pc = "returned"
  /\ code.src = "llm"
  /\ trace[Len(trace)] = "exec"
  /\ \/ "result_df" \notin local_vars.names
     \/ local_vars.result_type /= "int" /\ ~HasCells(local_vars.result_df)

\* C4 (as claimed): when the snippet of the generative path runs and gives an
\* empty result table, the fallback snippet is generated and executed before
\* analyze_data returns.
C4_EmptyResultFallsThrough ==
  GenerativeResultEmpty =>
    \E i, j \in 1..Len(trace) : i < j /\ trace[i] = "fallback" /\ trace[j] = "exec"

\* C4 (amended): when the snippet of the generative path runs and gives an
\* empty result table, analyze_data returns the failure outcome (empty table,
\* no chart, "No results generated from the query"); generate_fallback_code
\* is not called and nothing else is executed.
C4_EmptyResultIsFailure ==
  GenerativeResultEmpty =>
    /\ outcome = Outcome(EmptyDataFrame, NoFig, "No results generated from the query")
    /\ trace = <<"model", "exec">>

\* C4 witness: the snippet of the model bound an empty result table
C4_Witness ==
  /\ GenerativeResultEmpty
  /\ "result_df" \in local_vars.names
  /\ Len(local_vars.result_df.cols) > 0
  /\ outcome.viz_type = "No results generated from the query"

\* C5: for an empty table analyze_data returns an empty result table, no
\* chart and a non-empty status, and neither calls the model nor generates a
\* fallback snippet nor executes anything.
C5_EmptyTableShortCircuit ==
  (pc = "returned" /\ ~HasCells(df0)) =>
    /\ outcome.result_df = EmptyDataFrame
    /\ outcome.fig = NoFig
    /\ outcome.viz_type \notin {"", "none"}
    /\ ~llm.called
    /\ code = NoSnippet
    /\ trace = <<>>
    /\ local_vars = InitialNamespace

\* C5 witness: a table with rows and no columns was passed
C5_Witness ==
  /\ pc = "returned"
  /\ Len(df0.cols) = 0
  /\ Len(df0.rows) > 0
  /\ outcome.viz_type = "No data available"

\* C6: a returned outcome has a non-empty result table and is then exactly
\* the three names read from the namespace (fig defaulting to None, viz_type
\* to "none"), or it is a failure outcome: empty table, no chart, a message.
C6_OutcomeShape ==
  pc = "returned" =>
    \/ /\ HasCells(outcome.result_df)
       /\ trace[Len(trace)] = "exec"
       /\ "result_df" \in local_vars.names
       /\ outcome.result_df = local_vars.result_df
       /\ outcome.fig = (IF "fig" \in local_vars.names THEN local_vars.fig ELSE NoFig)
       /\ outcome.viz_type = (IF "viz_type" \in local_vars.names THEN local_vars.viz_type ELSE "none")
    \/ FailureOutcome(outcome)

\* C6 witness: the snippet bound a chart and an empty result table, and the
\* outcome has no chart
C6_Witness ==
  /\ pc = "returned"
  /\ trace = <<"model", "exec">>
  /\ "fig" \in local_vars.names
  /\ "result_df" \in local_vars.names
  /\ ~HasCells(local_vars.result_df)
  /\ outcome.fig = NoFig

\* the prompt of the call contains the keyword, case ignored
PromptHas(kw) == Contains(kw, Lower(prompt))

\* the table has a column whose name contains a date keyword
HasDateColumn == \E j \in 1..Len(df.cols) : ContainsAny(DateKeywords, Lower(df.cols[j]))

\* C7: generate_fallback_code takes the first branch that matches in the
\* order top, distribution/histogram, pie/percent, compare/correlation/
\* scatter, trend with a date column, default; "top" wins over "pie", and
\* "trend" on a table without a date column takes the default branch.
C7_DispatchOrder ==
  (pc = "fb_done" /\ escaped = "") =>
    LET a == PromptHas(kw_top)
        b == PromptHas(kw_distribution) \/ PromptHas(kw_histogram)
        c == PromptHas(kw_pie) \/ PromptHas(kw_percent)
        d == PromptHas(kw_compare) \/ PromptHas(kw_correlation) \/ PromptHas(kw_scatter)
        e == PromptHas(kw_trend) /\ HasDateColumn
    IN /\ code.branch \in {"top", "histogram", "pie", "scatter", "line", "default"}
       /\ (code.branch = "top") <=> a
       /\ (code.branch = "histogram") <=> (~a /\ b)
       /\ (code.branch = "pie") <=> (~a /\ ~b /\ c)
       /\ (code.branch = "scatter") <=> (~a /\ ~b /\ ~c /\ d)
       /\ (code.branch = "line") <=> (~a /\ ~b /\ ~c /\ ~d /\ e)
       /\ (code.branch = "default") <=> (~a /\ ~b /\ ~c /\ ~d /\ ~e)
       /\ (PromptHas(kw_trend) /\ ~HasDateColumn) => code.branch /= "line"

\* C7 witness: the prompt "top pie" took the top branch
C7_Witness ==
  /\ pc = "fb_done"
  /\ prompt = <<"t","o","p"," ","p","i","e">>
  /\ code.branch = "top"

\* n is the number the first run of digits of the prompt spells, 5 when the
\* prompt has no digit
IsFirstNumber(p, n) ==
  \/ /\ \A i \in 1..Len(p) : ~IsDigit(p[i])
     /\ n = 5
  \/ \E a \in 1..Len(p) : \E b \in a..Len(p) :
       /\ \A k \in a..b : IsDigit(p[k])
       /\ \A k \in 1..(a - 1) : ~IsDigit(p[k])
       /\ b = Len(p) \/ ~IsDigit(p[b + 1])
       /\ n = ParseInt(SubSeq(p, a, b))

\* the sum of column v of table t over the rows whose column c is key
SumWhere(t, c, v, key) ==
  SumSeq([i \in 1..Len(t.rows) |->
            IF t.rows[i][ColIdx(t, c)] = key THEN t.rows[i][ColIdx(t, v)] ELSE 0])

\* C8: in the top branch N is the first run of digits of the prompt (5 when
\* there is none); the result table has at most N rows, one per category
\* group with the sum of the value column of that group, in descending order
\* of the sum; "Show top 12 categories" on the columns Category, Value1 gives
\* N = 12, value column Value1, category column Category.
C8_TopN ==
  (pc = "returned" /\ code.src = "fallback" /\ code.branch = "top") =>
    /\ IsFirstNumber(prompt, code.n)
    /\ (/\ prompt = <<"S","h","o","w"," ","t","o","p"," ","1","2"," ","c","a","t","e","g","o","r","i","e","s">>
        /\ df0.cols = <<c_Category, c_Value1>>)
         => (code.n = 12 /\ code.value_col = c_Value1 /\ code.category_col = c_Category)
    /\ Len(outcome.result_df.rows) <= code.n
    /\ trace[Len(trace)] = "exec" =>
         LET r == local_vars.result_df
         IN /\ r.cols = <<code.category_col, code.value_col>>
            /\ Len(r.rows) <= code.n
            /\ \A i, j \in 1..Len(r.rows) : i /= j => r.rows[i][1] /= r.rows[j][1]
            /\ \A i \in 1..Len(r.rows) :
                 /\ \E k \in 1..Len(df0.rows) : df0.rows[k][ColIdx(df0, code.category_col)] = r.rows[i][1]
                 /\ r.rows[i][2] = SumWhere(df0, code.category_col, code.value_col, r.rows[i][1])
            /\ \A i, j \in 1..Len(r.rows) : i < j => r.rows[i][2] >= r.rows[j][2]

\* C8 witness: "top Value1" on three rows of Category, Value1: N = 1 comes
\* from the digit of the column name and the result is the one largest group
C8_Witness ==
  /\ pc = "returned"
  /\ code.branch = "top"
  /\ prompt = <<"t","o","p"," ","V","a","l","u","e","1">>
  /\ df0 = SampleTable(<<<<c_Category, c_Value1>>, <<"object", "int64">>>>, 3)
  /\ code.n = 1
  /\ outcome.result_df.rows = << <<"B", 5>> >>

\* C9 (as claimed): generate_fallback_code returns a snippet for every prompt
\* and every table, without raising, and the snippet binds result_df, fig and
\* viz_type, viz_type being one of bar, histogram, pie, scatter, line.
C9_FallbackTotal ==
  pc = "fb_done" =>
    /\ escaped = ""
    /\ code.src = "fallback"
    /\ fallback_viz_type(code.branch) \in ChartTags

\* C10 (as claimed): after analyze_data has returned from running a snippet
\* of the heuristic fallback, the table passed in has the columns, kinds and
\* cells it had when the call was entered.
C10_TableNotMutated ==
  (pc = "returned" /\ code.src = "fallback") => df = df0

\* the names the snippet binds itself
SnippetBound == {"result_df", "fig", "viz_type"}

\* C11 (as claimed): a snippet the model wrote runs in a namespace whose
\* visible names are only df, px, pd and np (besides the names it binds
\* itself): the builtin open and the import machinery are not reachable, so an
\* import statement in the snippet raises.
C11_RestrictedNamespace ==
  (pc = "returned" /\ code.src = "llm" /\ Len(trace) > 0) =>
    /\ visible_names(local_vars) \subseteq SnippetLocals \cup SnippetBound
    /\ (\E i \in 1..Len(SplitLines(code.text)) : SplitLines(code.text)[i] = l_import)
         => trace[Len(trace)] = "raise"

\* a table fetch_data or create_sample_data has finished building: the index
\* is set and every column the conversions of lines 46-50 apply to holds
\* numbers or timestamps
Built(f) ==
  /\ f.index_name /= PyNone
  /\ \A j \in 1..Len(f.cols) :
       /\ is_numeric_name(f.cols[j]) => f.kind[j] \in {"int64", "float64"}
       /\ (~is_numeric_name(f.cols[j]) /\ is_date_name(f.cols[j])) => f.kind[j] = "datetime64[ns]"

\* C12 (as claimed): the copy of the shared default table a script run takes
\* while a refresh is under way is a fully-formed table (the old one, the new
\* one, or the empty one), never one whose index is not yet set or whose
\* columns are only partly converted.
C12_ReaderSeesFullyFormed == current_df = EmptyFrame \/ Built(current_df)

IsFirstBlock(text, i, j) ==
  /\ OccursAt(fence_open, text, i)
  /\ \A k \in 0..(i - 1) : ~OccursAt(fence_open, text, k)
  /\ j >= i + Len(fence_open)
  /\ OccursAt(fence_close, text, j)
  /\ \A k \in (i + Len(fence_open))..(j - 1) : ~OccursAt(fence_close, text, k)

\* C14: for a response text that contains a block fenced and tagged as python
\* code, clean_code_snippet returns the content of the first such block with
\* leading and trailing whitespace removed, whatever the text before the
\* opening fence and after the closing fence.
C14_FirstFencedBlock ==
  pc = "cs_done" =>
    \A i \in 0..Len(llm.text) :
      OccursAt(fence_open, llm.text, i) =>
        \A j \in (i + Len(fence_open))..Len(llm.text) :
          IsFirstBlock(llm.text, i, j) =>
            code.text = Strip(SubSeq(llm.text, i + Len(fence_open) + 1, j))

\* a block with text before the opening fence and after the closing fence
C14_Witness ==
  /\ pc = "cs_done"
  /\ llm.text = Join(<<"\n">>, <<l_prose_open, l_indented_fig, l_close_prose>>)
  /\ code.text = l_fig

\* the lines the heuristic of lines 31-45 retains: those at or after the
\* first line that contains a marker and that do not start with # after
\* leading whitespace
RetainedLines(text) ==
  LET lines == SplitLines(text)
      triggers == {i \in 1..Len(lines) : \E m \in 1..Len(CodeMarkers) : Contains(CodeMarkers[m], lines[i])}
  IN IF triggers = {} THEN <<>>
     ELSE SelectSeq(SubSeq(lines, MinOf(triggers), Len(lines)),
                    LAMBDA l : ~StartsWith(Strip(l), <<"#">>))

\* C18 (as claimed): for a text without a python fence the output is exactly
\* the retained lines, in the original order; when no line is retained no
\* snippet is reported.
C18_ExactlyRetainedLines ==
  (pc = "cs_done" /\ ~Contains(fence_open, llm.text)) =>
    code.text = IF RetainedLines(llm.text) = <<>> THEN PyNone
                ELSE Join(<<"\n">>, RetainedLines(llm.text))

\* C18 (amended): for a text without a python fence the output is the
\* retained lines, in the original order, joined by newlines, with the
\* leading and trailing whitespace of the whole removed; when no line is
\* retained no snippet is reported.
C18_RetainedLinesStripped ==
  (pc = "cs_done" /\ ~Contains(fence_open, llm.text)) =>
    code.text = IF RetainedLines(llm.text) = <<>> THEN PyNone
                ELSE Strip(Join(<<"\n">>, RetainedLines(llm.text)))

\* a line without a marker before the first marker line and a comment after
\* it: the output is the marker line without its indentation
C18_Witness ==
  /\ pc = "cs_done"
  /\ llm.text = Join(<<"\n">>, <<l_close_prose, l_indented_fig, l_comment_import>>)
  /\ code.text = l_fig

\* the rows of t whose value in every column with a selection is one of the
\* values selected for it
MatchingRows(t, fs) ==
  SelectSeq([i \in 1..Len(t.rows) |-> i],
            LAMBDA i : \A n \in 1..Len(fs) : column_values(t, fs[n].col)[i] \in fs[n].vals)

\* C15: the table the filter step returns holds exactly the rows of the
\* input whose value in every selected column is one of the values selected
\* for that column, in the order of the input (all rows when nothing is
\* selected), with the columns and the index of the input.
C15_FilterExact ==
  pc = "f_done" =>
    LET keep == MatchingRows(filter_input, filters)
    IN /\ filtered_df.rows = [n \in 1..Len(keep) |-> filter_input.rows[keep[n]]]
       /\ filtered_df.index = [n \in 1..Len(keep) |-> filter_input.index[keep[n]]]
       /\ filtered_df.cols = filter_input.cols
       /\ filtered_df.kind = filter_input.kind
       /\ filtered_df.index_name = filter_input.index_name
       /\ Len(filters) = 0 => filtered_df = filter_input

\* two columns have a selection, each alone keeps more rows than both
\* together, and some row is kept
C15_Witness ==
  /\ pc = "f_done"
  /\ Len(filters) = 2
  /\ Len(filtered_df.rows) > 0
  /\ Len(filtered_df.rows) < Len(MatchingRows(filter_input, <<filters[1]>>))
  /\ Len(filtered_df.rows) < Len(MatchingRows(filter_input, <<filters[2]>>))

\* a column that holds numbers / text
NumericTyped(t, c) == Dtype(t, c) \in {"int64", "float64", "int32"}
CategoricalTyped(t, c) == Dtype(t, c) \in {"object", "category"}

\* the first column of t, in column order, that satisfies P; <<>> if none does
FirstColumn(t, P(_)) ==
  IF \E j \in 1..Len(t.cols) : P(t.cols[j])
    THEN t.cols[MinOf({j \in 1..Len(t.cols) : P(t.cols[j])})]
    ELSE <<>>

\* the columns whose lower-cased name occurs in the lower-cased prompt, in
\* column order
Mentioned(t, p) == SelectSeq(t.cols, LAMBDA c : Contains(Lower(c), Lower(p)))

\* C16 (as claimed): when the generator returns, the value column is the
\* first mentioned column (in column order) if it is numeric-typed, otherwise
\* the first column whose name matches a value keyword, otherwise the first
\* numeric-typed column, otherwise the first column of the table.
C16_ValueColumn ==
  (pc = "fb_done" /\ escaped = "") =>
    LET m == Mentioned(df, prompt)
        by_keyword == FirstColumn(df, LAMBDA c : ContainsAny(ValueKeywords, Lower(c)))
        by_type == FirstColumn(df, LAMBDA c : NumericTyped(df, c))
    IN code.value_col =
         IF m /= <<>> /\ NumericTyped(df, m[1]) THEN m[1]
         ELSE IF by_keyword /= <<>> THEN by_keyword
         ELSE IF by_type /= <<>> THEN by_type
         ELSE df.cols[1]

\* C17: when the generator returns, the category column is the second
\* mentioned column (in column order) if it is categorical-typed, otherwise
\* the first mentioned column if it is categorical-typed, otherwise the first
\* column whose name matches a category keyword, otherwise the first
\* categorical-typed column, otherwise the first column of the table.
C17_CategoryColumn ==
  (pc = "fb_done" /\ escaped = "") =>
    LET m == Mentioned(df, prompt)
        by_keyword == FirstColumn(df, LAMBDA c : ContainsAny(CategoryKeywords, Lower(c)))
        by_type == FirstColumn(df, LAMBDA c : CategoricalTyped(df, c))
    IN code.category_col =
         IF Len(m) > 1 /\ CategoricalTyped(df, m[2]) THEN m[2]
         ELSE IF Len(m) > 0 /\ CategoricalTyped(df, m[1]) THEN m[1]
         ELSE IF by_keyword /= <<>> THEN by_keyword
         ELSE IF by_type /= <<>> THEN by_type
         ELSE df.cols[1]

\* the prompt names Region before Category, the table holds Category before
\* Region, both text: the category column is Region, the second in column
\* order
C17_Witness ==
  /\ pc = "fb_done"
  /\ escaped = ""
  /\ Mentioned(df, prompt) = <<c_Category, c_Region>>
  /\ OccursAt(c_Region, prompt, 0)
  /\ code.category_col = c_Region

\* the polling threads that exist: started and not ended
LivePollers == {t \in 1..MaxPollers : Alive(t) /\ threads[t].pc /= "dead"}

\* C19 (as claimed): however many times the script has run, at most one
\* polling thread exists, and no two polling threads are inside fetch_data at
\* the same time.
C19_SinglePoller ==
  /\ Cardinality(LivePollers) <= 1
  /\ Cardinality({t \in LivePollers : threads[t].pc /= "idle"}) <= 1

\* the table create_sample_data builds
SampleTableBuilt == set_index(sample_data, c_ID, TRUE)

\* the table the call of thread t builds from the rows it fetched
FetchedTableBuilt(t) ==
  LET h == threads[t].headers
  IN Frame(h,
           [j \in 1..Len(h) |->
              IF is_numeric_name(h[j]) THEN "int64"
              ELSE IF is_date_name(h[j]) THEN "datetime64[ns]"
              ELSE "object"],
           h[1], Len(threads[t].data_rows))

\* what the claim says of the state in which the call of thread t returns
FetchOutcome(t) ==
  /\ threads[t].ret =>
       /\ Len(threads[t].data_rows) >= 1
       /\ data_df = FetchedTableBuilt(t)
       /\ last_update_time > threads[t].entry
  /\ ~threads[t].ret =>
       /\ data_df = SampleTableBuilt
       /\ data_df.nrows = 50
       /\ last_update_time = threads[t].entry
  /\ data_columns = data_df.cols

\* C20 (as claimed): at the step in which a call of fetch_data returns, if it
\* returns True the shared table is the table fetched by the call (a header
\* row and at least one data row) and last_update_time is later than when the
\* call was entered; if it returns False the shared table is the 50-row sample
\* table and last_update_time is what it was when the call was entered; either
\* way data_columns holds the column names of the shared table.
C20_FetchOutcome ==
  [][\A t \in Threads :
       (threads[t].pc /= "ret" /\ threads'[t].pc = "ret") => FetchOutcome(t)']_vars

====
